---- MODULE Spec2Model ----
(***************************************************************************)
(* A model of libtiff/tiff_file.py: the TIFFfile byte accessors, the       *)
(* directory-chain walk of TIFFfile.__init__, IFDEntry decoding, the       *)
(* memory-usage check and TIFFfile.get_samples.                            *)
(*                                                                         *)
(* The mapped file is a sequence of bytes (0..255), indexed from 0 in the  *)
(* code and from 1 here.  numpy views are modelled as the raw bytes they   *)
(* cover together with the TIFF type code that names their dtype.          *)
(* Python exceptions are modelled by the name of the exception class.      *)
(* Integers are TLC integers: every unsigned 32-bit field that the files   *)
(* enumerated below have read as unsigned is smaller than 2^31.  The tag   *)
(* values get_samples computes with are SHORTs, and numpy's arithmetic on  *)
(* them wraps at 16 bits.  The arrays get_samples returns are modelled by  *)
(* the positions in the buffer of the bytes of their elements.             *)
(***************************************************************************)
EXTENDS Integers, Sequences, FiniteSets, TLC

VARIABLES
    host,          \* byte order of the machine: numpy views decode natively
    data,          \* TIFFfile.data, the memory-mapped bytes
    pc,            \* position of TIFFfile.__init__ / state of the object
    endian,        \* TIFFfile.endian
    IFD_offset,    \* local IFD_offset of __init__
    IFD_list,      \* local IFD_list of __init__, then TIFFfile.IFD
    memory_usage,  \* TIFFfile.memory_usage
    is_lsm,        \* TIFFfile.is_lsm
    magic,         \* local magic of __init__: None until it is read
    result,        \* outcome of the last call made on the object
    IFDEntry_init_hooks   \* the module's list of pre-decode hooks

vars == <<host, data, pc, endian, IFD_offset, IFD_list, memory_usage, is_lsm, magic, result,
          IFDEntry_init_hooks>>

-----------------------------------------------------------------------------
(* Bounds of the model. *)

\* directories the chain walk may read before the model stops following it
MaxDirs == 4
\* longest directory chain written into an enumerated file
MaxChain == 3
\* number of trailing padding steps (2 bytes each) appended to a file
MaxPad == 2

-----------------------------------------------------------------------------
(* Python values. *)

None == <<>>
Some(x) == <<x>>

Raise(e) == [ok |-> FALSE, err |-> e]

\* F applied to the value of v: a local variable assigned once
Bind(v, F(_)) == CHOOSE y \in {F(w) : w \in {v}} : TRUE

Reverse(s) == [i \in 1..Len(s) |-> s[Len(s) + 1 - i]]

\* Python/numpy slicing s[a:b] of a sequence of length n: negative indexes
\* count from the end, indexes are clamped, an empty range gives nothing.
ClampIndex(i, n) ==
    IF i < 0 THEN (IF i + n < 0 THEN 0 ELSE i + n)
    ELSE (IF i > n THEN n ELSE i)

Slice(s, a, b) ==
    IF ClampIndex(a, Len(s)) < ClampIndex(b, Len(s))
    THEN SubSeq(s, ClampIndex(a, Len(s)) + 1, ClampIndex(b, Len(s)))
    ELSE <<>>

-----------------------------------------------------------------------------
(* tiff_data tables (external, fixed). *)

type2bytes_get(typ, default) ==
    CASE typ \in {1, 2, 6, 7} -> 1
      [] typ \in {3, 8} -> 2
      [] typ \in {4, 9, 11} -> 4
      [] typ \in {5, 10, 12} -> 8
      [] OTHER -> default

\* type2dtype.get(typ) is not None
type2dtype_has(typ) == typ \in 1..12

tag_value2name_get(tag) ==
    CASE tag = 254 -> "NewSubfileType"
      [] tag = 256 -> "ImageWidth"
      [] tag = 257 -> "ImageLength"
      [] tag = 258 -> "BitsPerSample"
      [] tag = 259 -> "Compression"
      [] tag = 270 -> "ImageDescription"
      [] tag = 273 -> "StripOffsets"
      [] tag = 277 -> "SamplesPerPixel"
      [] tag = 278 -> "RowsPerStrip"
      [] tag = 279 -> "StripByteCounts"
      [] tag = 282 -> "XResolution"
      [] tag = 284 -> "PlanarConfiguration"
      [] tag = 305 -> "Software"
      [] tag = 339 -> "SampleFormat"
      [] OTHER -> "TAG" \o ToString(tag)

-----------------------------------------------------------------------------
(* Native decoding of a numpy view: the bytes of one element, least        *)
(* significant first on a little-endian machine, most significant first on *)
(* a big-endian one.  TIFFfile.endian is never consulted.                  *)

RECURSIVE UIntLE(_)
UIntLE(bs) == IF bs = <<>> THEN 0 ELSE Head(bs) + 256 * UIntLE(Tail(bs))

\* two's complement: the most significant byte carries the sign
SIntLE(bs) ==
    UIntLE(SubSeq(bs, 1, Len(bs) - 1)
           \o <<IF bs[Len(bs)] >= 128 THEN bs[Len(bs)] - 256 ELSE bs[Len(bs)]>>)

NativeLE(h, bs) == IF h = "little" THEN bs ELSE Reverse(bs)

\* the bytes of data[offset:offset+w].view(dtype)[0]: an empty slice has no
\* element 0, a slice shorter than one element cannot be viewed
ScalarBytes(s, w) ==
    IF Len(s) = 0 THEN [ok |-> FALSE, err |-> "IndexError", raw |-> <<>>]
    ELSE IF Len(s) % w # 0 THEN [ok |-> FALSE, err |-> "ValueError", raw |-> <<>>]
    ELSE [ok |-> TRUE, err |-> "", raw |-> s]

ViewScalar(d, offset, w) == Bind(Slice(d, offset, offset + w), LAMBDA s : ScalarBytes(s, w))

UIntResult(h, r) ==
    IF r.ok THEN [ok |-> TRUE, err |-> "", val |-> UIntLE(NativeLE(h, r.raw))]
    ELSE [ok |-> FALSE, err |-> r.err, val |-> 0]

SIntResult(h, r) ==
    IF r.ok THEN [ok |-> TRUE, err |-> "", val |-> SIntLE(NativeLE(h, r.raw))]
    ELSE [ok |-> FALSE, err |-> r.err, val |-> 0]

get_uint16(d, h, offset) == Bind(ViewScalar(d, offset, 2), LAMBDA r : UIntResult(h, r))

get_uint32(d, h, offset) == Bind(ViewScalar(d, offset, 4), LAMBDA r : UIntResult(h, r))

get_int16(d, h, offset) == Bind(ViewScalar(d, offset, 2), LAMBDA r : SIntResult(h, r))

get_int32(d, h, offset) == Bind(ViewScalar(d, offset, 4), LAMBDA r : SIntResult(h, r))

\* A numpy view: arr is TRUE for an ndarray and FALSE for one element taken
\* out of it; typ names the dtype; raw are the bytes it covers.
View(arr, typ, raw) == [arr |-> arr, typ |-> typ, raw |-> raw]

\* number of elements of a view
ViewLen(v) == Len(v.raw) \div type2bytes_get(v.typ, 1)

\* self.data[offset:offset+bytes*count].view(dtype=dtype)
ValuesView(s, typ, bytes) ==
    IF Len(s) % bytes # 0 THEN [ok |-> FALSE, err |-> "ValueError", val |-> None]
    ELSE [ok |-> TRUE, err |-> "", val |-> Some(View(TRUE, typ, s))]

\* get_values: val is None (<<>>) for an unknown type, else <<view>>
get_values(d, offset, typ, count) ==
    IF ~type2dtype_has(typ) \/ type2bytes_get(typ, 0) = 0
    THEN [ok |-> TRUE, err |-> "", val |-> None]
    ELSE Bind(Slice(d, offset, offset + type2bytes_get(typ, 0) * count),
              LAMBDA s : ValuesView(s, typ, type2bytes_get(typ, 0)))

\* values[0], when values is not None
FirstValue(values, typ) ==
    IF ~values.ok \/ values.val = None THEN values
    ELSE IF ViewLen(values.val[1]) = 0 THEN [ok |-> FALSE, err |-> "IndexError", val |-> None]
    ELSE [ok |-> TRUE, err |-> "",
          val |-> Some(View(FALSE, typ, SubSeq(values.val[1].raw, 1, type2bytes_get(typ, 0))))]

get_value(d, offset, typ) ==
    Bind(get_values(d, offset, typ, 1), LAMBDA values : FirstValue(values, typ))

\* the elements of a view of an integer dtype, as numbers
ElemInt(h, typ, chunk) ==
    IF typ \in {6, 8, 9} THEN SIntLE(NativeLE(h, chunk)) ELSE UIntLE(NativeLE(h, chunk))

ViewInts(h, v) ==
    [i \in 1..ViewLen(v) |->
        ElemInt(h, v.typ, SubSeq(v.raw, (i - 1) * type2bytes_get(v.typ, 1) + 1,
                                 i * type2bytes_get(v.typ, 1)))]

-----------------------------------------------------------------------------
(* class IFDEntry and class IFD. *)

\* A memory region is the tuple (start, end, resource) of the code.
Region(start, end, resource) == <<start, end, resource>>

\* the entry built from what was read: offset = None is the code's
\* self.offset = None, value = None an entry whose value attribute is not set
NewEntry(tag, typ, count, self_offset, value) ==
    [tag |-> tag,
     type |-> typ,
     count |-> count,
     bytes |-> type2bytes_get(typ, 0),
     offset |-> self_offset,
     value |-> value,
     tag_name |-> tag_value2name_get(tag),
     memory_usage |->
         IF self_offset # None
         THEN <<Region(self_offset[1], self_offset[1] + type2bytes_get(typ, 0) * count,
                       tag_value2name_get(tag))>>
         ELSE <<>>]

EntryResult(tag, typ, count, self_offset, value) ==
    IF ~value.ok THEN Raise(value.err)
    ELSE [ok |-> TRUE, err |-> "", entry |-> NewEntry(tag, typ, count, self_offset, value.val)]

\* the value of an entry: inline in the 4-byte field when count == 1 and
\* 1 <= bytes <= 4, else at the offset the field holds (read as int32)
EntryValue(d, h, offset, tag, typ, count) ==
    IF count = 1 /\ 1 <= type2bytes_get(typ, 0) /\ type2bytes_get(typ, 0) <= 4
    THEN Bind(get_value(d, offset + 8, typ),
              LAMBDA value : EntryResult(tag, typ, count, None, value))
    ELSE Bind(get_int32(d, h, offset + 8), LAMBDA off :
              IF ~off.ok THEN Raise(off.err)
              ELSE Bind(get_values(d, off.val, typ, count),
                        LAMBDA value : EntryResult(tag, typ, count, Some(off.val), value)))

\* A pre-decode hook, hook(self).  The hooks are the vendor module's, which
\* registers them (lsm.register): on the entries of its tag that have the
\* type it looks for, a hook replaces the type and, if it names one, the
\* count, as the vendor hook replaces (BYTE, n) by (CZ_LSMInfo, 1).
RunHook(hook, e) ==
    IF e.tag = hook.tag /\ e.type = hook.from
    THEN [e EXCEPT !.type = hook.type,
                   !.count = IF hook.count = None THEN e.count ELSE hook.count[1]]
    ELSE e

\* the hooks of a list applied last to first
RECURSIVE RunInitHooks_reversed(_, _)
RunInitHooks_reversed(e, hooks) ==
    IF hooks = <<>> THEN e
    ELSE RunInitHooks_reversed(RunHook(hooks[Len(hooks)], e), SubSeq(hooks, 1, Len(hooks) - 1))

\* for hook in IFDEntry_init_hooks: hook(self)
RECURSIVE RunInitHooks(_, _)
RunInitHooks(e, hooks) ==
    IF hooks = <<>> THEN e
    ELSE RunInitHooks(RunHook(Head(hooks), e), Tail(hooks))

\* IFDEntry.__init__(ifd, tiff, offset)
IFDEntry(d, h, offset) ==
    Bind(get_uint16(d, h, offset), LAMBDA tag :
    Bind(get_uint16(d, h, offset + 2), LAMBDA typ :
    Bind(get_uint32(d, h, offset + 4), LAMBDA count :
        IF ~tag.ok THEN Raise(tag.err)
        ELSE IF ~typ.ok THEN Raise(typ.err)
        ELSE IF ~count.ok THEN Raise(count.err)
        ELSE Bind(RunInitHooks([tag |-> tag.val, type |-> typ.val, count |-> count.val],
                               IFDEntry_init_hooks),
                  LAMBDA e : EntryValue(d, h, offset, e.tag, e.type, e.count)))))

\* IFD.get(tag_name): the first entry of that name, or None
RECURSIVE IFD_get(_, _)
IFD_get(entries, tag_name) ==
    IF entries = <<>> THEN None
    ELSE IF Head(entries).tag_name = tag_name THEN Some(Head(entries))
    ELSE IFD_get(Tail(entries), tag_name)

\* IFD.memory_usage (property): the entries' regions, in entry order
RECURSIVE IFD_memory_usage(_)
IFD_memory_usage(entries) ==
    IF entries = <<>> THEN <<>>
    ELSE Head(entries).memory_usage \o IFD_memory_usage(Tail(entries))

\* the regions StripOffsets_hook adds for an out-of-line StripOffsets:
\* zip(counts.value, ifdentry.value) stops at the shorter of the two
StripRegions(counts, offsets) ==
    [i \in 1..(IF Len(counts) < Len(offsets) THEN Len(counts) ELSE Len(offsets)) |->
        Region(offsets[i], offsets[i] + counts[i], "strip " \o ToString(i - 1))]

\* StripOffsets_hook for a StripOffsets entry, counts = ifd.get('StripByteCounts').
\* An inline StripOffsets beside an ndarray StripByteCounts would make the end
\* of the region an ndarray; no file enumerated here has that, and the CASE
\* has no arm for it.
StripUsage(h, counts, ifdentry) ==
    IF ifdentry.offset # None
    THEN IF counts = None \/ counts[1].value = None THEN Raise("AttributeError")
         ELSE IF ifdentry.value = None THEN Raise("AttributeError")
         ELSE IF ~counts[1].value[1].arr THEN Raise("TypeError")
         ELSE [ok |-> TRUE, err |-> "",
               entry |-> [ifdentry EXCEPT !.memory_usage =
                   @ \o StripRegions(ViewInts(h, counts[1].value[1]),
                                     ViewInts(h, ifdentry.value[1]))]]
    ELSE IF counts = None \/ counts[1].value = None THEN Raise("AttributeError")
         ELSE CASE ~counts[1].value[1].arr ->
              [ok |-> TRUE, err |-> "",
               entry |-> [ifdentry EXCEPT !.memory_usage =
                   Append(@, Region(ViewInts(h, ifdentry.value[1])[1],
                                    ViewInts(h, ifdentry.value[1])[1]
                                        + ViewInts(h, counts[1].value[1])[1],
                                    "strip"))]]

\* StripOffsets_hook(ifdentry), the registered finalize hook
StripOffsets_hook(h, entries, ifdentry) ==
    IF ifdentry.tag_name # "StripOffsets" THEN [ok |-> TRUE, err |-> "", entry |-> ifdentry]
    ELSE Bind(IFD_get(entries, "StripByteCounts"),
              LAMBDA counts : StripUsage(h, counts, ifdentry))

\* IFD.finalize(): every finalize hook on every entry, in entry order
RECURSIVE IFD_finalize(_, _, _)
IFD_finalize(h, entries, i) ==
    IF i > Len(entries) THEN [ok |-> TRUE, err |-> "", entries |-> entries]
    ELSE Bind(StripOffsets_hook(h, entries, entries[i]), LAMBDA r :
              IF ~r.ok THEN Raise(r.err)
              ELSE IFD_finalize(h, [entries EXCEPT ![i] = r.entry], i + 1))

\* for i in range(n): entry = IFDEntry(ifd, self, IFD_offset + 2 + i*12);
\*                    ifd.append(entry)
RECURSIVE ReadEntries(_, _, _, _, _, _)
ReadEntries(d, h, off, n, i, acc) ==
    IF i >= n THEN [ok |-> TRUE, err |-> "", entries |-> acc]
    ELSE Bind(IFDEntry(d, h, off + 2 + i * 12), LAMBDA e :
              IF ~e.ok THEN Raise(e.err)
              ELSE ReadEntries(d, h, off, n, i + 1, Append(acc, e.entry)))

\* the end of one iteration: the directory, its region in memory_usage and
\* IFD_offset = self.get_uint32(IFD_offset + 2 + n*12)
CloseIFD(off, n, k, fin, next) ==
    IF ~fin.ok THEN Raise(fin.err)
    ELSE IF ~next.ok THEN Raise(next.err)
    ELSE [ok |-> TRUE, err |-> "",
          ifd |-> [entries |-> fin.entries],
          usage |-> Region(off, off + 2 + n * 12 + 4,
                           "IFD" \o ToString(k) \o " entries ("
                               \o ToString(Len(fin.entries)) \o ")"),
          next |-> next.val]

\* one iteration of the while loop of TIFFfile.__init__; k = len(IFD_list)
\* after the append
ReadIFD(d, h, off, k) ==
    Bind(get_uint16(d, h, off), LAMBDA n :
        IF ~n.ok THEN Raise(n.err)
        ELSE Bind(ReadEntries(d, h, off, n.val, 0, <<>>), LAMBDA es :
            IF ~es.ok THEN Raise(es.err)
            ELSE Bind(IFD_finalize(h, es.entries, 1), LAMBDA fin :
                 Bind(get_uint32(d, h, off + 2 + n.val * 12), LAMBDA next :
                      CloseIFD(off, n.val, k, fin, next)))))

-----------------------------------------------------------------------------
(* TIFFfile.__init__(filename, mode='r', first_byte=0), one action per     *)
(* header read and per iteration of the directory walk.                    *)

first_byte == 0

\* the outcome of a call that raised
Failed(op, e) == [op |-> op, ok |-> FALSE, err |-> e]

\* byteorder = self.get_uint16(first_byte), and the test on it
ReadByteOrder ==
    /\ pc = "byteorder"
    /\ \E r \in {get_uint16(data, host, first_byte)} :
           IF ~r.ok
           THEN /\ pc' = "failed"
                /\ result' = Failed("get_uint16", r.err)
                /\ UNCHANGED endian
           ELSE IF r.val = 18761        \* 0x4949
           THEN /\ pc' = "magic"
                /\ endian' = "little"
                /\ result' = [op |-> "get_uint16", ok |-> TRUE, err |-> "",
                              offset |-> first_byte, val |-> r.val]
           ELSE IF r.val = 19789        \* 0x4d4d
           THEN /\ pc' = "magic"
                /\ endian' = "big"
                /\ result' = [op |-> "get_uint16", ok |-> TRUE, err |-> "",
                              offset |-> first_byte, val |-> r.val]
           ELSE /\ pc' = "failed"
                /\ result' = Failed("open", "ValueError")
                /\ UNCHANGED endian
    /\ UNCHANGED <<IFDEntry_init_hooks, host, data, IFD_offset, IFD_list, memory_usage, is_lsm, magic>>

\* magic = self.get_uint16(first_byte+2), and the test on it
ReadMagic ==
    /\ pc = "magic"
    /\ \E r \in {get_uint16(data, host, first_byte + 2)} :
           IF ~r.ok
           THEN /\ pc' = "failed"
                /\ result' = Failed("get_uint16", r.err)
                /\ UNCHANGED magic
           ELSE /\ magic' = Some(r.val)
                /\ IF r.val # 42
                   THEN /\ pc' = "failed"
                        /\ result' = Failed("open", "ValueError")
                   ELSE /\ pc' = "ifd0"
                        /\ result' = [op |-> "get_uint16", ok |-> TRUE, err |-> "",
                                      offset |-> first_byte + 2, val |-> r.val]
    /\ UNCHANGED <<IFDEntry_init_hooks, host, data, endian, IFD_offset, IFD_list, memory_usage, is_lsm>>

\* IFD0 = first_byte + self.get_uint32(first_byte+4); the header's region;
\* n = self.get_uint16(IFD0)
ReadIFD0 ==
    /\ pc = "ifd0"
    /\ \E r \in {get_uint32(data, host, first_byte + 4)} :
           IF ~r.ok
           THEN /\ pc' = "failed"
                /\ result' = Failed("open", r.err)
                /\ UNCHANGED <<IFD_offset, memory_usage>>
           ELSE \E n \in {get_uint16(data, host, first_byte + r.val)} :
                /\ memory_usage' = Append(memory_usage,
                                          Region(first_byte, first_byte + 8, "file header"))
                /\ IF ~n.ok
                   THEN /\ pc' = "failed"
                        /\ result' = Failed("open", n.err)
                        /\ UNCHANGED IFD_offset
                   ELSE /\ pc' = "walk"
                        /\ IFD_offset' = first_byte + r.val
                        /\ result' = [op |-> "get_uint32", ok |-> TRUE, err |-> "",
                                      offset |-> first_byte + 4, val |-> r.val]
    /\ UNCHANGED <<IFDEntry_init_hooks, host, data, endian, IFD_list, is_lsm, magic>>

\* one iteration of "while IFD_offset:".  The code has no bound on the walk;
\* the model keeps the first MaxDirs directories of a chain and their regions,
\* and of the number of directories appended so far it keeps the parity
\* (result.parity), so that an iteration is a step also past MaxDirs.
WalkStep ==
    /\ pc = "walk"
    /\ IFD_offset # 0
    /\ \E r \in {ReadIFD(data, host, IFD_offset,
                          IF Len(IFD_list) < MaxDirs THEN Len(IFD_list) + 1 ELSE MaxDirs)} :
           IF ~r.ok
           THEN /\ pc' = "failed"
                /\ result' = Failed("open", r.err)
                /\ UNCHANGED <<IFD_offset, IFD_list, memory_usage>>
           ELSE /\ IFD_list' = IF Len(IFD_list) < MaxDirs THEN Append(IFD_list, r.ifd)
                                ELSE IFD_list
                /\ memory_usage' = IF Len(IFD_list) < MaxDirs
                                   THEN Append(memory_usage, r.usage)
                                   ELSE memory_usage
                /\ IFD_offset' = r.next
                /\ result' = [op |-> "walk", ok |-> TRUE, err |-> "",
                              offset |-> IFD_offset, val |-> r.next,
                              parity |-> IF result.op = "walk"
                                         THEN 1 - result.parity ELSE 1]
                /\ UNCHANGED pc
    /\ UNCHANGED <<IFDEntry_init_hooks, host, data, endian, is_lsm, magic>>

\* the loop ends on a zero offset: self.IFD = IFD_list
WalkDone ==
    /\ pc = "walk"
    /\ IFD_offset = 0
    /\ pc' = "open"
    /\ result' = [op |-> "open", ok |-> TRUE, err |-> ""]
    /\ UNCHANGED <<IFDEntry_init_hooks, host, data, endian, IFD_offset, IFD_list, memory_usage, is_lsm, magic>>

-----------------------------------------------------------------------------
(* Values as get_samples handles them.  An entry's value is an ndarray or  *)
(* a numpy scalar; numpy scalar arithmetic keeps the operands' width and   *)
(* wraps at it, a Python int operand makes the result a 64-bit integer.    *)

\* a number v of width w bytes; w = 0 for a Python int / 64-bit result
Num(v, w) == [v |-> v, w |-> w]

\* the unsigned integer types BYTE, SHORT and LONG
WidthOf(typ) == CASE typ = 1 -> 1 [] typ = 3 -> 2 [] typ = 4 -> 4

\* 32-bit results are kept only while they need no wrap
Wrap(v, w) ==
    CASE w = 0 -> v
      [] w = 1 -> v % 256
      [] w = 2 -> v % 65536
      [] w = 4 /\ v >= 0 -> v

ResultWidth(a, b) == IF a.w = 0 \/ b.w = 0 THEN 0 ELSE IF a.w > b.w THEN a.w ELSE b.w

Add(a, b) == Num(Wrap(a.v + b.v, ResultWidth(a, b)), ResultWidth(a, b))

Sub(a, b) == Num(Wrap(a.v - b.v, ResultWidth(a, b)), ResultWidth(a, b))

\* entry.value as numbers: arr tells an ndarray from a scalar
Value(h, view) == [arr |-> view.arr, w |-> WidthOf(view.typ), ints |-> ViewInts(h, view)]

\* a Python int
PyInt(n) == [arr |-> FALSE, w |-> 0, ints |-> <<n>>]

\* element k (from 1) of a value
Elem(val, k) == Num(val.ints[k], val.w)

Ok(x) == [ok |-> TRUE, err |-> "", val |-> x]

\* the rest of a computation F on the value of r, unless r raised
Then(r, F(_)) == Bind(r, LAMBDA x : IF x.ok THEN F(x.val) ELSE x)

\* IFD.get_value(tag_name, default): None or Some(value)
IFD_get_value(h, entries, tag_name, default) ==
    Bind(IFD_get(entries, tag_name), LAMBDA entry :
        IF entry = None THEN Ok(default)
        ELSE IF entry[1].value = None THEN Raise("AttributeError")
        ELSE Ok(Some(Value(h, entry[1].value[1]))))

\* a == b elementwise, a and b not None: a sequence of booleans, or
\* <<FALSE>> when the shapes do not broadcast
EqElems(a, b) ==
    IF Len(a.ints) = Len(b.ints) THEN [k \in 1..Len(a.ints) |-> a.ints[k] = b.ints[k]]
    ELSE IF Len(b.ints) = 1 THEN [k \in 1..Len(a.ints) |-> a.ints[k] = b.ints[1]]
    ELSE IF Len(a.ints) = 1 THEN [k \in 1..Len(b.ints) |-> a.ints[1] = b.ints[k]]
    ELSE <<FALSE>>

\* the truth value of a == b in "if" and "assert": an array of more than
\* one element has none
PyEq(a, b) ==
    IF a = None \/ b = None THEN Ok(a = b)
    ELSE IF Len(EqElems(a[1], b[1])) = 0 THEN Ok(FALSE)
    ELSE IF Len(EqElems(a[1], b[1])) > 1 THEN Raise("ValueError")
    ELSE Ok(EqElems(a[1], b[1])[1])

\* (a == b).all() for an ndarray a: arrays of different lengths compare to
\* the bool False, which has no method all
PyEqAll(a, b) ==
    IF b[1].arr /\ Len(a[1].ints) # Len(b[1].ints)
          /\ Len(a[1].ints) # 1 /\ Len(b[1].ints) # 1
    THEN Raise("AttributeError")
    ELSE Ok(\A k \in 1..Len(EqElems(a[1], b[1])) : EqElems(a[1], b[1])[k])

\* value == n for a Python int n, outside "if": None and arrays are not n
IsInt(val, n) == val # None /\ ~val[1].arr /\ val[1].ints[1] = n

-----------------------------------------------------------------------------
(* IFD.is_contiguous() *)

\* for i in range(len(strip_offsets)-1), from i (0-based)
RECURSIVE PairsContiguous(_, _, _)
PairsContiguous(strip_offsets, strip_nbytes, i) ==
    IF i >= Len(strip_offsets.ints) - 1 THEN Ok(TRUE)
    ELSE IF ~strip_nbytes.arr \/ i + 1 > Len(strip_nbytes.ints) THEN Raise("IndexError")
    ELSE IF Add(Elem(strip_offsets, i + 1), Elem(strip_nbytes, i + 1)).v
                # strip_offsets.ints[i + 2]
    THEN Ok(FALSE)
    ELSE PairsContiguous(strip_offsets, strip_nbytes, i + 1)

IFD_is_contiguous(h, entries) ==
    Bind(IFD_get(entries, "StripOffsets"), LAMBDA so :
    Bind(IFD_get(entries, "StripByteCounts"), LAMBDA sn :
        IF so = None \/ so[1].value = None THEN Raise("AttributeError")
        ELSE IF sn = None \/ sn[1].value = None THEN Raise("AttributeError")
        ELSE IF so[1].value[1].arr
        THEN PairsContiguous(Value(h, so[1].value[1]), Value(h, sn[1].value[1]), 0)
        ELSE Ok(TRUE)))

-----------------------------------------------------------------------------
(* TIFFfile.get_samples(subfile_type=0, verbose=False) *)

\* a selection that takes every directory, whatever its subfile type
SelectIFDs_all(h, ifds, subfile_type, k, acc) == Ok([j \in 1..Len(ifds) |-> j])

\* ifd_lst = [ifd for ifd in self.IFD
\*            if ifd.get_value('NewSubfileType', subfile_type)==subfile_type]
RECURSIVE SelectIFDs(_, _, _, _, _)
SelectIFDs(h, ifds, subfile_type, k, acc) ==
    IF k > Len(ifds) THEN Ok(acc)
    ELSE Then(IFD_get_value(h, ifds[k].entries, "NewSubfileType", Some(PyInt(subfile_type))),
         LAMBDA v :
         Then(PyEq(v, Some(PyInt(subfile_type))), LAMBDA same :
              SelectIFDs(h, ifds, subfile_type, k + 1,
                         IF same THEN Append(acc, k) ELSE acc)))

\* the (start, end) pair appended to l.  A scalar StripOffsets beside an
\* ndarray StripByteCounts would make end an ndarray; no file enumerated
\* here has that, and the CASE has no arm for it.
StripSpan(strip_offsets, strip_nbytes) ==
    IF strip_offsets.arr
    THEN IF Len(strip_offsets.ints) = 0 THEN Raise("IndexError")
         ELSE IF ~strip_nbytes.arr \/ Len(strip_nbytes.ints) = 0 THEN Raise("IndexError")
         ELSE Ok(<<Elem(strip_offsets, 1),
                   Add(Elem(strip_offsets, Len(strip_offsets.ints)),
                       Elem(strip_nbytes, Len(strip_nbytes.ints)))>>)
    ELSE CASE ~strip_nbytes.arr ->
              Ok(<<Elem(strip_offsets, 1), Add(Elem(strip_offsets, 1), Elem(strip_nbytes, 1))>>)

\* {1:'uint', 2:'int', 3:'float', None:'uint', 6:'complex'}.get(sample_format),
\* 'uint' when that is None; an ndarray is not hashable
FormatOf(sample_format) ==
    IF sample_format = None THEN Ok("uint")
    ELSE IF sample_format[1].arr THEN Raise("TypeError")
    ELSE CASE sample_format[1].ints[1] = 2 -> Ok("int")
           [] sample_format[1].ints[1] = 3 -> Ok("float")
           [] sample_format[1].ints[1] = 6 -> Ok("complex")
           [] OTHER -> Ok("uint")

\* hasattr(numpy, '%s%s' % (format, bits))
numpy_has(format, bits) ==
    CASE format \in {"uint", "int"} -> bits \in {8, 16, 32, 64}
      [] format = "float" -> bits \in {16, 32, 64}
      [] format = "complex" -> bits \in {64, 128}

Dtype(format, bits) == [format |-> format, bits |-> bits]

\* for j in range(samples_per_pixel): bits = bits_per_sample[j]; ...
RECURSIVE DtypeLoop(_, _, _, _, _)
DtypeLoop(format, bits_per_sample, n, j, acc) ==
    IF j >= n THEN Ok(acc)
    ELSE IF j + 1 > Len(bits_per_sample.ints) THEN Raise("IndexError")
    ELSE IF ~numpy_has(format, bits_per_sample.ints[j + 1]) THEN Raise("AttributeError")
    ELSE DtypeLoop(format, bits_per_sample, n, j + 1,
                   [dtype_lst |-> Append(acc.dtype_lst,
                                         Dtype(format, bits_per_sample.ints[j + 1])),
                    bits_per_pixel |-> acc.bits_per_pixel + bits_per_sample.ints[j + 1]])

\* dtype_lst and bits_per_pixel (lines 259-270); samples_per_pixel is a
\* scalar in every file enumerated here
Dtypes(format, bits_per_sample, samples_per_pixel) ==
    IF bits_per_sample = None THEN Raise("AttributeError")
    ELSE IF bits_per_sample[1].arr
    THEN CASE ~samples_per_pixel[1].arr ->
              DtypeLoop(format, bits_per_sample[1], samples_per_pixel[1].ints[1], 0,
                        [dtype_lst |-> <<>>, bits_per_pixel |-> 0])
    ELSE IF ~numpy_has(format, bits_per_sample[1].ints[1]) THEN Raise("AttributeError")
    ELSE Ok([dtype_lst |-> <<Dtype(format, bits_per_sample[1].ints[1])>>,
             bits_per_pixel |-> bits_per_sample[1].ints[1]])

\* numpy's integer floor division: x // 0 is 0
FloorDiv(a, b) == IF b = 0 THEN 0 ELSE a \div b

\* bytes_per_pixel ... rows_per_strip and the two asserts (lines 271-279);
\* width and length are scalars or None in every file enumerated here
Derived(h, entries, width, length, bits_per_pixel, strips_per_image) ==
    IF 8 * (bits_per_pixel \div 8) # bits_per_pixel THEN Raise("AssertionError")
    ELSE IF width = None \/ length = None THEN Raise("TypeError")
    ELSE CASE ~width[1].arr /\ ~length[1].arr ->
         Bind([bytes_per_pixel |-> bits_per_pixel \div 8,
               bytes_per_row |-> width[1].ints[1] * (bits_per_pixel \div 8),
               bytes_per_image |-> length[1].ints[1] * width[1].ints[1] * (bits_per_pixel \div 8),
               rows_per_strip |->
                   FloorDiv(length[1].ints[1] * width[1].ints[1] * (bits_per_pixel \div 8),
                            width[1].ints[1] * (bits_per_pixel \div 8) * strips_per_image)],
              LAMBDA q :
              Then(IFD_get_value(h, entries, "RowsPerStrip", Some(PyInt(q.rows_per_strip))),
                   LAMBDA rows :
                   Then(PyEq(Some(PyInt(q.rows_per_strip)), rows), LAMBDA same :
                        IF same THEN Ok(q) ELSE Raise("AssertionError"))))

\* the branch "if i==0" (lines 240-279): the parameters of the call, taken
\* from the first selected directory
FirstSlice(h, lsm, entries, strip_offsets, span) ==
    Then(IFD_get_value(h, entries, "Compression", None), LAMBDA compression :
    Then(IFD_get_value(h, entries, "ImageWidth", None), LAMBDA width :
    Then(IFD_get_value(h, entries, "ImageLength", None), LAMBDA length :
    Then(IFD_get_value(h, entries, "SamplesPerPixel", Some(PyInt(1))), LAMBDA samples_per_pixel :
    Then(IFD_get_value(h, entries, "PlanarConfiguration", None), LAMBDA planar_config :
    Then(IFD_get_value(h, entries, "BitsPerSample", None), LAMBDA bits_per_sample :
    Then(IFD_get_value(h, entries, "SampleFormat", None), LAMBDA sample_format :
    Then(FormatOf(sample_format), LAMBDA format :
    Then(Dtypes(format, bits_per_sample, samples_per_pixel), LAMBDA dt :
    Then(Derived(h, entries, width, length, dt.bits_per_pixel,
                 IF lsm \/ ~strip_offsets.arr THEN 1 ELSE Len(strip_offsets.ints)),
         LAMBDA q :
         Ok([compression |-> compression,
             width |-> width,
             length |-> length,
             samples_per_pixel |-> samples_per_pixel,
             planar_config |-> planar_config,
             bits_per_sample |-> bits_per_sample,
             strips_per_image |-> IF lsm \/ ~strip_offsets.arr THEN 1
                                  ELSE Len(strip_offsets.ints),
             dtype_lst |-> dt.dtype_lst,
             bits_per_pixel |-> dt.bits_per_pixel,
             bytes_per_pixel |-> q.bytes_per_pixel,
             bytes_per_row |-> q.bytes_per_row,
             strip_length |-> Sub(span[2], span[1]),
             bytes_per_image |-> q.bytes_per_image,
             rows_per_strip |-> q.rows_per_strip])))))))))))

\* one "assert a == ifd.get_value(tag, a)"
AssertSame(h, entries, tag_name, a) ==
    Then(IFD_get_value(h, entries, tag_name, a), LAMBDA b :
    Then(PyEq(a, b), LAMBDA same : IF same THEN Ok(TRUE) ELSE Raise("AssertionError")))

\* the assert on BitsPerSample (lines 286-289)
AssertBits(h, entries, bits_per_sample) ==
    Then(IFD_get_value(h, entries, "BitsPerSample", bits_per_sample), LAMBDA b :
    Then(IF bits_per_sample[1].arr THEN PyEqAll(bits_per_sample, b) ELSE PyEq(bits_per_sample, b),
         LAMBDA same : IF same THEN Ok(TRUE) ELSE Raise("AssertionError")))

\* the branch "else" of "if i==0" (lines 281-289)
LaterSlice(h, entries, p, span) ==
    Then(AssertSame(h, entries, "ImageWidth", p.width), LAMBDA a1 :
    Then(AssertSame(h, entries, "ImageLength", p.length), LAMBDA a2 :
    Then(AssertSame(h, entries, "PlanarConfiguration", p.planar_config), LAMBDA a3 :
         IF p.strip_length.v # Sub(span[2], span[1]).v THEN Raise("AssertionError")
         ELSE Then(AssertBits(h, entries, p.bits_per_sample), LAMBDA a4 : Ok(p)))))

\* "if i>0" (lines 290-297): step and can_return_memmap; l already holds
\* the span of this slice
Stepped(st, p, span) ==
    IF st.i = 0
    THEN Ok([ifd_lst |-> st.ifd_lst, l |-> Append(st.l, span), i |-> 1, step |-> st.step,
             can_return_memmap |-> IsInt(p.compression, 1), p |-> Some(p)])
    ELSE IF st.i = 1
    THEN IF Sub(span[1], st.l[Len(st.l)][2]).v < 0 THEN Raise("AssertionError")
         ELSE Ok([ifd_lst |-> st.ifd_lst, l |-> Append(st.l, span), i |-> 2,
                  step |-> Sub(span[1], st.l[Len(st.l)][2]),
                  can_return_memmap |-> st.can_return_memmap, p |-> Some(p)])
    ELSE Ok([ifd_lst |-> st.ifd_lst, l |-> Append(st.l, span), i |-> st.i + 1,
             step |-> st.step,
             can_return_memmap |-> st.can_return_memmap
                                   /\ st.step.v = Sub(span[1], st.l[Len(st.l)][2]).v,
             p |-> Some(p)])

\* the body of "for ifd in ifd_lst" for one directory
SliceBody(h, lsm, entries, st) ==
    Then(IFD_is_contiguous(h, entries), LAMBDA contiguous :
        IF ~contiguous THEN Raise("NotImplementedError")
        ELSE
        Then(IFD_get_value(h, entries, "StripOffsets", None), LAMBDA strip_offsets :
        Then(IFD_get_value(h, entries, "StripByteCounts", None), LAMBDA strip_nbytes :
        Then(StripSpan(strip_offsets[1], strip_nbytes[1]), LAMBDA span :
        Then(IF st.i = 0 THEN FirstSlice(h, lsm, entries, strip_offsets[1], span)
             ELSE LaterSlice(h, entries, st.p[1], span),
             LAMBDA p : Stepped(st, p, span))))))

\* what the call leaves when it raises: the exception, the statement group
\* it came from and the locals of the loop
Raised(e, at, st) ==
    [ok |-> FALSE, err |-> e, at |-> at, ifd_lst |-> st.ifd_lst, i |-> st.i, l |-> st.l,
     step |-> st.step, can_return_memmap |-> st.can_return_memmap, p |-> st.p,
     arr |-> None]

\* the loop over ifd_lst, from its k-th directory
RECURSIVE SliceLoop(_, _, _, _, _, _)
SliceLoop(h, lsm, ifds, ifd_lst, k, st) ==
    IF k > Len(ifd_lst) THEN Ok(st)
    ELSE Bind(SliceBody(h, lsm, ifds[ifd_lst[k]].entries, st), LAMBDA r :
              IF ~r.ok THEN Raised(r.err, "loop", st)
              ELSE SliceLoop(h, lsm, ifds, ifd_lst, k + 1, r.val))

\* A numpy array over the mapped file is modelled by the buffer positions
\* (from 0) of its bytes, row by row.
\* self.data[a:b].reshape((depth, ncols))
Reshape2(size, a, b, depth, ncols) ==
    IF (IF ClampIndex(a, size) < ClampIndex(b, size)
        THEN ClampIndex(b, size) - ClampIndex(a, size) ELSE 0) # depth * ncols
       \/ ncols < 0
    THEN Raise("ValueError")
    ELSE Ok([pos |-> [n \in 1..(depth * ncols) |-> ClampIndex(a, size) + n - 1],
             depth |-> depth, ncols |-> ncols])

\* the columns a, a+s, ... below b of a row of ncols columns (0 <= a, s >= 1)
Cols(ncols, a, b, s) ==
    IF a >= (IF b < ncols THEN b ELSE ncols) THEN <<>>
    ELSE [c \in 1..(((IF b < ncols THEN b ELSE ncols) - a + s - 1) \div s) |-> a + (c - 1) * s]

\* arr[:, cols], flattened row by row
ColSlice(arr, cols) ==
    [n \in 1..(arr.depth * Len(cols)) |->
        arr.pos[((n - 1) \div Len(cols)) * arr.ncols + cols[((n - 1) % Len(cols)) + 1] + 1]]

\* flat.view(dtype).reshape((depth, length, width)): the elements, each the
\* positions of its bytes; base tells an array over self.data from one over
\* a numpy.empty() buffer
Sample(flat, dtype, depth, length, width, base) ==
    IF Len(flat) % (dtype.bits \div 8) # 0 THEN Raise("ValueError")
    ELSE IF Len(flat) \div (dtype.bits \div 8) # depth * length * width THEN Raise("ValueError")
    ELSE Ok([shape |-> <<depth, length, width>>, dtype |-> dtype, base |-> base,
             elems |-> [n \in 1..(Len(flat) \div (dtype.bits \div 8)) |->
                           SubSeq(flat, (n - 1) * (dtype.bits \div 8) + 1,
                                  n * (dtype.bits \div 8))]])

\* sample_names = ['sample%s' % (j) for j in range (samples_per_pixel)]
SampleNames(n) == [j \in 1..n |-> "sample" \o ToString(j - 1)]

\* the external codec tif_lzw.decode(d, bytes_per_strip): bytes_per_strip
\* bytes; byte n decoded from the strip at s is named -(LzwBase + LzwBase*s + n)
LzwBase == 1000

tif_lzw_decode(s, bytes_per_strip) ==
    [n \in 1..bytes_per_strip |-> -(LzwBase + LzwBase * s + (n - 1))]

\* a byte of numpy.empty() that was never written
Uninitialized == -1

\* "for start, end in l" of the slow path, from the k-th pair: arr is the
\* owned buffer; i the fill position
RECURSIVE CopyLoop(_, _, _, _, _, _, _)
CopyLoop(size, l, k, compression5, bytes_per_strip, arr, i) ==
    IF k > Len(l) THEN Ok(arr)
    ELSE Bind(IF compression5
              THEN tif_lzw_decode(ClampIndex(l[k][1].v, size), bytes_per_strip)
              ELSE IF ClampIndex(l[k][1].v, size) < ClampIndex(l[k][2].v, size)
              THEN [n \in 1..(ClampIndex(l[k][2].v, size) - ClampIndex(l[k][1].v, size)) |->
                        ClampIndex(l[k][1].v, size) + n - 1]
              ELSE <<>>,
              LAMBDA d :
              IF i + Len(d) > Len(arr) THEN Raise("ValueError")
              ELSE CopyLoop(size, l, k + 1, compression5, bytes_per_strip,
                            [n \in 1..Len(arr) |->
                                IF n > i /\ n <= i + Len(d) THEN d[n - i] ELSE arr[n]],
                            i + Len(d)))

\* the slow path (lines 324-342)
SlowPath(size, st, p) ==
    IF ~IsInt(p.planar_config, 1) THEN Raised("NotImplementedError", "slow", st)
    ELSE IF ~IsInt(p.samples_per_pixel, 1) THEN Raised("NotImplementedError", "slow", st)
    ELSE IF Len(st.l) # p.strips_per_image THEN Raised("AssertionError", "slow", st)
    ELSE Bind(CopyLoop(size, st.l, 1, IsInt(p.compression, 5),
                       p.bytes_per_image \div p.strips_per_image,
                       [n \in 1..p.bytes_per_image |-> Uninitialized], 0),
              LAMBDA arr :
              IF ~arr.ok THEN Raised(arr.err, "slow", st)
              ELSE Bind(Sample(arr.val, p.dtype_lst[1], st.i, p.length[1].ints[1],
                               p.width[1].ints[1], "empty"),
                        LAMBDA s :
                        IF ~s.ok THEN Raised(s.err, "slow", st)
                        ELSE [ok |-> TRUE, err |-> "", at |-> "slow",
                              ifd_lst |-> st.ifd_lst, i |-> st.i, l |-> st.l,
                              step |-> st.step, can_return_memmap |-> FALSE,
                              p |-> st.p, arr |-> None,
                              samples |-> <<s.val>>,
                              sample_names |-> SampleNames(1)]))

\* arr and k of the fast path (lines 344-353)
FastView(size, st, p) ==
    IF st.l[1][1].v > st.step.v
    THEN Then(Reshape2(size, Sub(st.l[1][1], st.step).v, st.l[Len(st.l)][2].v,
                       st.i, Add(p.strip_length, st.step).v),
              LAMBDA arr : Ok([arr |-> arr, k |-> st.step.v]))
    ELSE IF st.l[Len(st.l)][2].v <= size - st.step.v
    THEN Then(Reshape2(size, st.l[1][1].v, Add(st.l[Len(st.l)][2], st.step).v,
                       st.i, Add(p.strip_length, st.step).v),
              LAMBDA arr : Ok([arr |-> arr, k |-> 0]))
    ELSE Raise("NotImplementedError")

\* "for j in range(samples_per_pixel)" of the LSM planar layout (lines
\* 367-374), from j.  A view of another item size needs a contiguous array.
RECURSIVE PlanarLoop(_, _, _, _, _, _)
PlanarLoop(arr, p, n, j, k, samples) ==
    IF j >= n THEN Ok(samples)
    ELSE IF j + 1 > Len(p.bits_per_sample[1].ints) THEN Raise("IndexError")
    ELSE Bind(Cols(arr.ncols, k,
                   k + (p.bits_per_sample[1].ints[j + 1] \div 8)
                       * p.width[1].ints[1] * p.length[1].ints[1], 1),
              LAMBDA cols :
              IF p.dtype_lst[j + 1].bits # 8 /\ arr.depth > 1 /\ Len(cols) # arr.ncols
              THEN Raise("ValueError")
              ELSE Then(Sample(ColSlice(arr, cols), p.dtype_lst[j + 1], arr.depth,
                               p.length[1].ints[1], p.width[1].ints[1], "data"),
                        LAMBDA s :
                        PlanarLoop(arr, p, n, j + 1,
                                   k + (p.bits_per_sample[1].ints[j + 1] \div 8)
                                       * p.width[1].ints[1] * p.length[1].ints[1],
                                   Append(samples, s))))

\* planar_config == 2 (lines 355-384); the channel names of an LSM file
\* come from its vendor metadata
Planar(arr, k, lsm, subfile_type, p) ==
    IF ~lsm THEN Raise("NotImplementedError")
    ELSE IF subfile_type = 1 /\ ~IsInt(p.samples_per_pixel, 3) THEN Raise("AssertionError")
    ELSE IF subfile_type \notin {0, 1} THEN Raise("NotImplementedError")
    ELSE Then(IF p.bits_per_sample[1].arr
              THEN PlanarLoop(arr, p, p.samples_per_pixel[1].ints[1], 0, k, <<>>)
              ELSE IF ~IsInt(p.samples_per_pixel, 1) THEN Raise("AssertionError")
              ELSE Bind(Cols(arr.ncols, k,
                             k + (p.bits_per_sample[1].ints[1] \div 8)
                                 * p.width[1].ints[1] * p.length[1].ints[1], 1),
                        LAMBDA cols :
                        IF p.dtype_lst[1].bits # 8 /\ arr.depth > 1 /\ Len(cols) # arr.ncols
                        THEN Raise("ValueError")
                        ELSE Then(Sample(ColSlice(arr, cols), p.dtype_lst[1], arr.depth,
                                         p.length[1].ints[1], p.width[1].ints[1], "data"),
                                  LAMBDA s : Ok(<<s>>))),
              LAMBDA samples :
              Ok([samples |-> samples,
                  sample_names |-> IF subfile_type = 0 THEN <<"data channel name">>
                                   ELSE <<"red", "green", "blue">>]))

RECURSIVE SumTo(_, _)
SumTo(s, n) == IF n = 0 \/ s = <<>> THEN 0 ELSE Head(s) + SumTo(Tail(s), n - 1)

\* "for j in range(samples_per_pixel)" of the interleaved layout (lines
\* 391-396), from j; k grows by bytes in every round
RECURSIVE InterleavedLoop(_, _, _, _, _, _, _)
InterleavedLoop(arr, p, n, bytes, j, k, samples) ==
    IF j >= n THEN Ok(samples)
    ELSE IF j + 1 > Len(p.dtype_lst) THEN Raise("IndexError")
    ELSE Then(Sample(ColSlice(arr, Cols(arr.ncols, k + j, k + j + bytes, n)),
                     p.dtype_lst[j + 1], arr.depth, p.length[1].ints[1],
                     p.width[1].ints[1], "data"),
              LAMBDA s : InterleavedLoop(arr, p, n, bytes, j + 1, k + bytes,
                                         Append(samples, s)))

\* planar_config == 1 (lines 385-397)
Interleaved(arr, k, p) ==
    Then(InterleavedLoop(arr, p, p.samples_per_pixel[1].ints[1],
                         ((IF p.bits_per_sample[1].arr
                           THEN SumTo(p.bits_per_sample[1].ints, p.samples_per_pixel[1].ints[1])
                           ELSE p.bits_per_sample[1].ints[1]) \div 8)
                             * p.width[1].ints[1] * p.length[1].ints[1],
                         0, k, <<>>),
         LAMBDA samples :
         Ok([samples |-> samples,
             sample_names |-> SampleNames(p.samples_per_pixel[1].ints[1])]))

\* the fast path (lines 344-399)
FastPath(size, lsm, subfile_type, st, p) ==
    Bind(FastView(size, st, p), LAMBDA v :
        IF ~v.ok THEN Raised(v.err, "view", st)
        ELSE Bind(IF IsInt(p.planar_config, 2) THEN Planar(v.val.arr, v.val.k, lsm, subfile_type, p)
                  ELSE IF IsInt(p.planar_config, 1) THEN Interleaved(v.val.arr, v.val.k, p)
                  ELSE Raise("NotImplementedError"),
                  LAMBDA r :
                  IF ~r.ok
                  THEN [Raised(r.err, IF IsInt(p.planar_config, 2) THEN "planar"
                                      ELSE IF IsInt(p.planar_config, 1) THEN "interleaved"
                                      ELSE "layout", st)
                        EXCEPT !.arr = Some(v.val.arr)]
                  ELSE [ok |-> TRUE, err |-> "",
                        at |-> IF IsInt(p.planar_config, 2) THEN "planar" ELSE "interleaved",
                        ifd_lst |-> st.ifd_lst, i |-> st.i, l |-> st.l, step |-> st.step,
                        can_return_memmap |-> TRUE, p |-> st.p, arr |-> Some(v.val.arr),
                        samples |-> r.val.samples,
                        sample_names |-> r.val.sample_names]))

\* the locals before the loop (lines 221-224)
Locals0(ifd_lst) ==
    [ifd_lst |-> ifd_lst, l |-> <<>>, i |-> 0, step |-> Num(0, 0),
     can_return_memmap |-> TRUE, p |-> None]

\* get_samples: the outcome of the call
get_samples(d, h, lsm, ifds, subfile_type) ==
    Bind(SelectIFDs(h, ifds, subfile_type, 1, <<>>), LAMBDA sel :
        IF ~sel.ok THEN Raised(sel.err, "select", Locals0(<<>>))
        ELSE Bind(SliceLoop(h, lsm, ifds, sel.val, 1, Locals0(sel.val)), LAMBDA r :
             IF ~r.ok THEN r
             ELSE IF r.val.i = 0 THEN Raised("UnboundLocalError", "names", r.val)
             ELSE IF ~r.val.can_return_memmap THEN SlowPath(Len(d), r.val, r.val.p[1])
             ELSE FastPath(Len(d), lsm, subfile_type, r.val, r.val.p[1])))

-----------------------------------------------------------------------------
(* Client calls on an opened TIFFfile. *)

\* l.sort(): tuples order by start, then end (the resource breaks the
\* remaining ties and does not change what the walk below sees)
RegionLE(a, b) == a[1] < b[1] \/ (a[1] = b[1] /\ a[2] <= b[2])

RECURSIVE InsertRegion(_, _)
InsertRegion(sorted, x) ==
    IF sorted = <<>> THEN <<x>>
    ELSE IF RegionLE(Head(sorted), x) THEN <<Head(sorted)>> \o InsertRegion(Tail(sorted), x)
    ELSE <<x>> \o sorted

RECURSIVE SortRegions(_)
SortRegions(l) ==
    IF l = <<>> THEN <<>>
    ELSE InsertRegion(SortRegions(SubSeq(l, 1, Len(l) - 1)), l[Len(l)])

\* for ifd in self.IFD: l.extend(ifd.memory_usage)
RECURSIVE AllIFDUsage(_)
AllIFDUsage(ifds) ==
    IF ifds = <<>> THEN <<>>
    ELSE IFD_memory_usage(Head(ifds).entries) \o AllIFDUsage(Tail(ifds))

\* "if last_end:" is the truth value of last_end: None and 0 are both false
Truthy(last_end) == last_end # None /\ last_end[1] # 0

\* what verbose=True prints about a region that does not start at last_end
GapReport(start, last_end) ==
    IF start < last_end THEN <<<<"unknown", start - last_end>>, <<"overlapping", 0>>>>
    ELSE <<<<"unknown", start - last_end>>>>

\* the walk of check_memory_usage over the sorted list, from index i;
\* report collects what verbose=True prints about gaps and overlaps
RECURSIVE CheckWalk(_, _, _, _, _)
CheckWalk(l, i, last_end, ok, report) ==
    IF i > Len(l) THEN [ok |-> ok, report |-> report]
    ELSE IF Truthy(last_end) /\ last_end[1] # l[i][1]
    THEN CheckWalk(l, i + 1, Some(l[i][2]), FALSE, report \o GapReport(l[i][1], last_end[1]))
    ELSE CheckWalk(l, i + 1, Some(l[i][2]), ok, report)

check_memory_usage(usage, ifds) ==
    Bind(SortRegions(usage \o AllIFDUsage(ifds)),
         LAMBDA l : CheckWalk(l, 1, None, TRUE, <<>>))

CheckMemoryUsage ==
    /\ pc = "open"
    /\ \E r \in {check_memory_usage(memory_usage, IFD_list)} :
           result' = [op |-> "check_memory_usage", ok |-> TRUE, err |-> "",
                      ret |-> r.ok, report |-> r.report]
    /\ UNCHANGED <<IFDEntry_init_hooks, host, data, pc, endian, IFD_offset, IFD_list, memory_usage, is_lsm, magic>>

\* offsets a client reads at: around both ends of the buffer
ReadOffsets == {-4, -1, 0, Len(data) - 3, Len(data) - 1, Len(data)}

\* get_uint16 / get_int16 / get_int32 called by a client
GetScalar ==
    /\ pc = "open"
    /\ \E op \in {"get_uint16", "get_int16", "get_int32"}, offset \in ReadOffsets :
         \E r \in {CASE op = "get_uint16" -> get_uint16(data, host, offset)
                     [] op = "get_int16" -> get_int16(data, host, offset)
                     [] op = "get_int32" -> get_int32(data, host, offset)} :
             result' = [op |-> op, ok |-> r.ok, err |-> r.err,
                        offset |-> offset, val |-> r.val]
    /\ UNCHANGED <<IFDEntry_init_hooks, host, data, pc, endian, IFD_offset, IFD_list, memory_usage, is_lsm, magic>>

\* get_uint32 called by a client (on words below 2^31)
GetUint32 ==
    /\ pc = "open"
    /\ \E offset \in ReadOffsets :
         /\ \A s \in {NativeLE(host, Slice(data, offset, offset + 4))} :
                Len(s) = 4 => s[4] < 128
         /\ \E r \in {get_uint32(data, host, offset)} :
                result' = [op |-> "get_uint32", ok |-> r.ok, err |-> r.err,
                           offset |-> offset, val |-> r.val]
    /\ UNCHANGED <<IFDEntry_init_hooks, host, data, pc, endian, IFD_offset, IFD_list, memory_usage, is_lsm, magic>>

\* get_float32 / get_float64 called by a client; the value is kept as the
\* bytes of the element
GetFloat ==
    /\ pc = "open"
    /\ \E w \in {4, 8}, offset \in ReadOffsets :
         \E r \in {ViewScalar(data, offset, w)} :
             result' = [op |-> IF w = 4 THEN "get_float32" ELSE "get_float64",
                        ok |-> r.ok, err |-> r.err, offset |-> offset,
                        raw |-> r.raw]
    /\ UNCHANGED <<IFDEntry_init_hooks, host, data, pc, endian, IFD_offset, IFD_list, memory_usage, is_lsm, magic>>

\* get_values(offset, typ, count) called by a client
GetValues ==
    /\ pc = "open"
    /\ \E offset \in ReadOffsets, typ \in {1, 4, 13}, count \in 1..2 :
         \E r \in {get_values(data, offset, typ, count)} :
             result' = [op |-> "get_values", ok |-> r.ok, err |-> r.err,
                        offset |-> offset, typ |-> typ, count |-> count, val |-> r.val]
    /\ UNCHANGED <<IFDEntry_init_hooks, host, data, pc, endian, IFD_offset, IFD_list, memory_usage, is_lsm, magic>>

\* get_samples(subfile_type) called by a client
SubfileTypes == {0, 1, 2}

GetSamples ==
    /\ pc = "open"
    /\ \E subfile_type \in SubfileTypes :
         \E r \in {get_samples(data, host, is_lsm, IFD_list, subfile_type)} :
             result' = [op |-> "get_samples", ok |-> r.ok, err |-> r.err,
                        subfile_type |-> subfile_type, ret |-> r]
    /\ UNCHANGED <<IFDEntry_init_hooks, host, data, pc, endian, IFD_offset, IFD_list, memory_usage, is_lsm, magic>>

\* IFD[k].is_contiguous() called by a client
IsContiguous ==
    /\ pc = "open"
    /\ \E k \in 1..Len(IFD_list) :
         \E r \in {IFD_is_contiguous(host, IFD_list[k].entries)} :
             result' = [op |-> "is_contiguous", ok |-> r.ok, err |-> r.err,
                        k |-> k, ret |-> IF r.ok THEN Some(r.val) ELSE None]
    /\ UNCHANGED <<IFDEntry_init_hooks, host, data, pc, endian, IFD_offset, IFD_list, memory_usage, is_lsm, magic>>

-----------------------------------------------------------------------------
(* The files the model opens.  A file is written in byte order o, with the *)
(* byte-order marker `marker`: a header, a chain of N directories, the     *)
(* out-of-line values of the first directory and some padding.             *)

U16(o, v) ==
    IF o = "little" THEN <<v % 256, (v \div 256) % 256>>
    ELSE <<(v \div 256) % 256, v % 256>>

U32(o, v) ==
    LET le == <<v % 256, (v \div 256) % 256, (v \div 65536) % 256, (v \div 16777216) % 256>>
    IN  IF o = "little" THEN le ELSE Reverse(le)

EntryBytes(o, tag, typ, count, field) == U16(o, tag) \o U16(o, typ) \o U32(o, count) \o field

RECURSIVE Concat(_)
Concat(ss) == IF ss = <<>> THEN <<>> ELSE Head(ss) \o Concat(Tail(ss))

DirBytes(o, entries, next) == U16(o, Len(entries)) \o Concat(entries) \o U32(o, next)

Zeros(n) == [i \in 1..n |-> 0]

\* the first directory of a file and its out-of-line data, which starts at t
Shapes == 1..14

Shape(id, o, t) ==
    CASE id = 1 ->   \* one inline SHORT
           [entries |-> <<EntryBytes(o, 256, 3, 1, U16(o, 5) \o <<0, 0>>)>>, tail |-> <<>>]
      [] id = 2 ->   \* two SHORTs, out of line
           [entries |-> <<EntryBytes(o, 258, 3, 2, U32(o, t))>>,
            tail |-> U16(o, 8) \o U16(o, 8)]
      [] id = 3 ->   \* one RATIONAL: 8 bytes, out of line
           [entries |-> <<EntryBytes(o, 282, 5, 1, U32(o, t))>>,
            tail |-> U32(o, 1) \o U32(o, 2)]
      [] id = 4 ->   \* a type code the tables do not know
           [entries |-> <<EntryBytes(o, 256, 13, 1, U32(o, t))>>, tail |-> <<1, 2>>]
      [] id = 5 ->   \* two offset fields with the sign bit set
           [entries |-> <<EntryBytes(o, 270, 1, 5, U32(o, -5)),
                          EntryBytes(o, 305, 1, 3, U32(o, -3))>>, tail |-> <<>>]
      [] id = 6 ->   \* two LONGs of which the file holds the first only
           [entries |-> <<EntryBytes(o, 258, 4, 2, U32(o, t))>>, tail |-> U32(o, 7)]
      [] id = 7 ->   \* count 0
           [entries |-> <<EntryBytes(o, 270, 1, 0, U32(o, t))>>, tail |-> <<>>]
      [] id = 8 ->   \* one strip, offset and byte count inline
           [entries |-> <<EntryBytes(o, 273, 4, 1, U32(o, t)),
                          EntryBytes(o, 279, 4, 1, U32(o, 4))>>, tail |-> <<1, 2, 3, 4>>]
      [] id = 9 ->   \* two strips, offsets and byte counts out of line
           [entries |-> <<EntryBytes(o, 273, 4, 2, U32(o, t)),
                          EntryBytes(o, 279, 4, 2, U32(o, t + 8))>>,
            tail |-> U32(o, t + 16) \o U32(o, t + 18) \o U32(o, 2) \o U32(o, 2)
                     \o <<1, 2, 3, 4>>]
      [] id = 10 ->  \* StripOffsets without StripByteCounts
           [entries |-> <<EntryBytes(o, 273, 4, 2, U32(o, t))>>,
            tail |-> U32(o, t + 8) \o U32(o, t + 10) \o <<1, 2, 3, 4>>]
      [] id = 11 ->  \* two strip offsets, one inline byte count
           [entries |-> <<EntryBytes(o, 273, 4, 2, U32(o, t)),
                          EntryBytes(o, 279, 4, 1, U32(o, 4))>>,
            tail |-> U32(o, t + 8) \o U32(o, t + 10) \o <<1, 2, 3, 4>>]
      [] id = 12 ->  \* a directory without entries
           [entries |-> <<>>, tail |-> <<>>]
      [] id = 13 ->  \* a tag the tables do not know
           [entries |-> <<EntryBytes(o, 9999, 3, 1, U16(o, 5) \o <<0, 0>>)>>, tail |-> <<>>]
      [] id = 14 ->  \* an out-of-line value in front of a later one: overlap
           [entries |-> <<EntryBytes(o, 258, 3, 2, U32(o, t)),
                          EntryBytes(o, 270, 1, 3, U32(o, t + 2))>>,
            tail |-> U16(o, 8) \o U16(o, 8) \o <<0>>]

\* the one inline entry of every directory after the first
LaterEntry(o) == EntryBytes(o, 256, 3, 1, U16(o, 5) \o <<0, 0>>)

DirSize(n) == 2 + 12 * n + 4

Lasts == {"zero", "cycle", "self", "beyond"}

File(marker, o, number, id, N, last, pad) ==
    LET n1 == Len(Shape(id, o, 0).entries)
        off(k) == IF k = 1 THEN 8 ELSE 8 + DirSize(n1) + (k - 2) * DirSize(1)
        t == 8 + DirSize(n1) + (N - 1) * DirSize(1)
        sh == Shape(id, o, t)
        sz == t + Len(sh.tail) + 2 * pad
        next(k) == IF k < N THEN off(k + 1)
                   ELSE CASE last = "zero" -> 0
                          [] last = "cycle" -> 8
                          [] last = "self" -> off(N)
                          [] last = "beyond" -> sz + 6
        dir(k) == DirBytes(o, IF k = 1 THEN sh.entries ELSE <<LaterEntry(o)>>, next(k))
    IN  (IF marker = "little" THEN <<73, 73>> ELSE <<77, 77>>)
        \o U16(o, number) \o U32(o, 8)
        \o Concat([k \in 1..N |-> dir(k)])
        \o sh.tail \o Zeros(2 * pad)

Orders == {"little", "big"}

\* chains of every length and ending under either marker, and every shape
\* of a first directory at the head of a shortest and of a longest chain
Files ==
    {File(marker, o, 42, 1, N, last, 0) :
        marker \in Orders, o \in Orders, N \in 1..MaxChain, last \in Lasts}
    \cup {File(o, o, 42, id, N, "zero", pad) :
        o \in Orders, id \in Shapes, N \in {1, MaxChain}, pad \in 0..MaxPad}
    \cup {File(o, o, 43, 1, 1, "zero", 0) : o \in Orders}
    \cup {<<73, 73>>, <<73, 77, 42, 0>>, <<73, 73, 42, 0, 8, 0, 0, 0>>,
          <<77, 77, 0, 42, 0, 0, 0, 8>>, <<73, 73, 42, 0, 0, 0, 0, 0>>}

-----------------------------------------------------------------------------
(* Image files: a header, N directories, each in a block of MetaSize bytes *)
(* together with its out-of-line values, and the pixel bytes of N slices   *)
(* of Side x Side pixels.  A file is described by a record c:              *)
(*   N       number of directories                                        *)
(*   S       SamplesPerPixel                                              *)
(*   bits    BitsPerSample of every sample                                *)
(*   planar  PlanarConfiguration, 0 for a file without the tag            *)
(*   comp    Compression, 0 for a file without the tag                    *)
(*   layout  where the directories and the slices are placed              *)
(*   var     what one directory declares differently from the others      *)
(* All values are SHORTs, so that numpy's arithmetic on them is 16-bit.    *)

MaxDepth == 3

Side == 2

Gap == 2

MaxEntries == 10

\* a directory block: the directory, then BitsPerSample (4 bytes),
\* StripOffsets (8 bytes) and StripByteCounts (8 bytes)
ValsAt == DirSize(MaxEntries)

MetaSize == ValsAt + 20

Short1(o, tag, v) == EntryBytes(o, tag, 3, 1, U16(o, v) \o <<0, 0>>)

ShortN(o, tag, n, at) == EntryBytes(o, tag, 3, n, U32(o, at))

Long1(o, tag, v) == EntryBytes(o, tag, 4, 1, U32(o, v))

Opt(cond, e) == IF cond THEN <<e>> ELSE <<>>

RECURSIVE Shorts(_, _)
Shorts(o, vs) == IF vs = <<>> THEN <<>> ELSE U16(o, Head(vs)) \o Shorts(o, Tail(vs))

Pad(s, n) == s \o Zeros(n - Len(s))

\* bytes of one slice
PixelBytes(c) == (Side * Side * c.S * c.bits) \div 8

Layouts == {"packed", "gap", "uneven", "descending", "pixels_first", "split", "truncated"}

\* offset of directory k
MetaAt(c, k) ==
    CASE c.layout = "pixels_first" -> 8 + c.N * (PixelBytes(c) + 8) + (k - 1) * MetaSize
      [] c.layout = "split" -> 8 + PixelBytes(c) + (k - 1) * MetaSize
      [] OTHER -> 8 + (k - 1) * MetaSize

\* offset of the pixel bytes of slice k
PixelsAt(c, k) ==
    CASE c.layout \in {"packed", "truncated"} -> 8 + c.N * MetaSize + (k - 1) * PixelBytes(c)
      [] c.layout = "gap" -> 8 + c.N * MetaSize + (k - 1) * (PixelBytes(c) + Gap)
      [] c.layout = "uneven" ->
             8 + c.N * MetaSize + (k - 1) * (PixelBytes(c) + Gap) + (IF k >= 3 THEN Gap ELSE 0)
      [] c.layout = "descending" -> 8 + c.N * MetaSize + (c.N - k) * (PixelBytes(c) + Gap)
      [] c.layout = "pixels_first" -> 8 + (k - 1) * (PixelBytes(c) + 8)
      [] c.layout = "split" ->
             IF k = 1 THEN 8
             ELSE 8 + PixelBytes(c) + c.N * MetaSize
                  + (k - 2) * (PixelBytes(c) + c.N * MetaSize)

FileSize(c) ==
    CASE c.layout = "pixels_first" -> MetaAt(c, c.N) + MetaSize
      [] c.layout = "split" /\ c.N = 1 -> MetaAt(c, 1) + MetaSize
      [] c.layout = "descending" -> PixelsAt(c, 1) + PixelBytes(c)
      [] c.layout = "truncated" -> PixelsAt(c, c.N) + PixelBytes(c) - Gap
      [] OTHER -> PixelsAt(c, c.N) + PixelBytes(c)

Vars ==
    {"width", "length", "planar", "bits", "broadcast", "strips2", "split_first",
     "split_last", "three_strips", "two_strips_apart", "wrap", "subfile", "rows",
     "nospp"}

\* the directory that differs under "width", "length", "planar", "bits"
\* and "split_last": the last one, if it is not the first
Differs(c, k) == k = c.N /\ k >= 2

\* StripOffsets and StripByteCounts of slice k
Strips(c, k) ==
    CASE c.var = "strips2" \/ (c.var = "split_first" /\ k # 1)
             \/ (c.var = "split_last" /\ ~Differs(c, k)) ->
             [offsets |-> <<PixelsAt(c, k), PixelsAt(c, k) + PixelBytes(c) \div 2>>,
              counts |-> <<PixelBytes(c) \div 2, PixelBytes(c) \div 2>>]
      [] (c.var = "split_first" /\ k = 1) \/ (c.var = "split_last" /\ Differs(c, k)) ->
             [offsets |-> <<PixelsAt(c, k), PixelsAt(c, k) + PixelBytes(c) \div 2 + 1>>,
              counts |-> <<PixelBytes(c) \div 2, PixelBytes(c) \div 2>>]
      [] c.var = "three_strips" /\ k = 1 ->
             [offsets |-> <<0, 100, 250>>, counts |-> <<100, 150, 150>>]
      [] c.var = "two_strips_apart" /\ k = 1 ->
             [offsets |-> <<0, 110>>, counts |-> <<100, 140>>]
      [] c.var = "wrap" /\ k = 1 ->   \* the second strip lies before the first
             [offsets |-> <<65530, 8>>, counts |-> <<14, 4>>]
      [] OTHER -> [offsets |-> <<PixelsAt(c, k)>>, counts |-> <<PixelBytes(c)>>]

\* the BitsPerSample values of slice k
BitsOf(c, k) ==
    CASE c.var = "broadcast" -> IF k = 1 THEN <<c.bits, c.bits>> ELSE <<c.bits>>
      [] c.var = "bits" /\ Differs(c, k) -> [j \in 1..c.S |-> 24 - c.bits]
      [] OTHER -> [j \in 1..c.S |-> c.bits]

\* a SHORT entry of the values vs, out of line at `at` unless there is one
ShortEntry(o, tag, vs, at) ==
    IF Len(vs) = 1 THEN Short1(o, tag, vs[1]) ELSE ShortN(o, tag, Len(vs), at)

\* the entries of directory k, in tag order
ImageEntries(o, c, k) ==
    Opt(c.var = "subfile", Long1(o, 254, IF k = 2 THEN 1 ELSE 0))
    \o <<Short1(o, 256, IF c.var = "width" /\ Differs(c, k) THEN Side + 1 ELSE Side),
         Short1(o, 257, IF c.var = "length" /\ Differs(c, k) THEN Side + 1 ELSE Side),
         ShortEntry(o, 258, BitsOf(c, k), MetaAt(c, k) + ValsAt)>>
    \o Opt(c.comp # 0, Short1(o, 259, c.comp))
    \o <<ShortEntry(o, 273, Strips(c, k).offsets, MetaAt(c, k) + ValsAt + 4)>>
    \o Opt(c.var \notin {"nospp", "broadcast"}, Short1(o, 277, c.S))
    \o Opt(c.var = "rows", Short1(o, 278, Side + 1))
    \o <<ShortEntry(o, 279, Strips(c, k).counts, MetaAt(c, k) + ValsAt + 12)>>
    \o Opt(c.planar # 0,
           Short1(o, 284, IF c.var = "planar" /\ Differs(c, k) THEN 3 - c.planar ELSE c.planar))

\* directory k and its out-of-line values, as they lie in the file
MetaBytes(o, c, k) ==
    Pad(DirBytes(o, ImageEntries(o, c, k), IF k < c.N THEN MetaAt(c, k + 1) ELSE 0), ValsAt)
    \o Pad(Shorts(o, BitsOf(c, k)), 4)
    \o Pad(Shorts(o, Strips(c, k).offsets), 8)
    \o Pad(Shorts(o, Strips(c, k).counts), 8)

\* buf with bytes written at offset off
Overlay(buf, off, bytes) ==
    [n \in 1..Len(buf) |-> IF n > off /\ n <= off + Len(bytes) THEN bytes[n - off] ELSE buf[n]]

RECURSIVE WriteDirs(_, _, _, _)
WriteDirs(buf, o, c, k) ==
    IF k > c.N THEN buf
    ELSE WriteDirs(Overlay(buf, MetaAt(c, k), MetaBytes(o, c, k)), o, c, k + 1)

ImageFile(o, c) ==
    WriteDirs(Overlay(Zeros(FileSize(c)), 0,
                      (IF o = "little" THEN <<73, 73>> ELSE <<77, 77>>)
                      \o U16(o, 42) \o U32(o, MetaAt(c, 1))),
              o, c, 1)

Config(n, s, b, p, cm, ly, v) ==
    [N |-> n, S |-> s, bits |-> b, planar |-> p, comp |-> cm, layout |-> ly, var |-> v]

ImageConfigs ==
    {Config(n, s, b, p, cm, ly, "none") :
        n \in 1..MaxDepth, s \in {1, 2}, b \in {8, 16}, p \in {1, 2}, cm \in {1, 7},
        ly \in Layouts}
    \cup {Config(n, s, 8, p, 1, "gap", v) :
        n \in 1..MaxDepth, s \in {1, 2}, p \in {1, 2}, v \in Vars}
    \cup {Config(n, 1, b, p, cm, "packed", "none") :
        n \in 1..MaxDepth, b \in {8, 12}, p \in {0, 1}, cm \in {0, 5}}
    \cup {Config(n, 1, 8, 1, cm, "gap", "strips2") : n \in 1..MaxDepth, cm \in {5, 7}}

ImageFiles(o) == {ImageFile(o, c) : c \in ImageConfigs}

-----------------------------------------------------------------------------

Init ==
    /\ host \in Orders
    /\ data \in Files
    /\ pc = "byteorder"
    /\ endian = "unset"
    /\ IFD_offset = 0
    /\ IFD_list = <<>>
    /\ memory_usage = <<Region(Len(data), Len(data), "eof")>>
    /\ is_lsm = FALSE
    /\ magic = None
    /\ result = [op |-> "none", ok |-> TRUE, err |-> ""]
    /\ IFDEntry_init_hooks = <<>>

Next ==
    \/ ReadByteOrder
    \/ ReadMagic
    \/ ReadIFD0
    \/ WalkStep
    \/ WalkDone
    \/ CheckMemoryUsage
    \/ GetScalar
    \/ GetUint32
    \/ GetFloat
    \/ GetValues

Spec == Init /\ [][Next]_vars

\* TIFFfile.__init__ is straight-line code: once called, it keeps running
Open == ReadByteOrder \/ ReadMagic \/ ReadIFD0 \/ WalkStep \/ WalkDone

SpecOpen == Init /\ [][Next]_vars /\ WF_vars(Open)

\* an image file on a machine of its byte order; is_lsm is what the vendor
\* module's hooks leave on the object.  The vendor's pre-decode hooks act on
\* its private tag, which no file of Spec and SpecSamples holds: the list
\* is empty there.
InitSamples ==
    /\ host \in Orders
    /\ data \in ImageFiles(host)
    /\ pc = "byteorder"
    /\ endian = "unset"
    /\ IFD_offset = 0
    /\ IFD_list = <<>>
    /\ memory_usage = <<Region(Len(data), Len(data), "eof")>>
    /\ is_lsm \in BOOLEAN
    /\ magic = None
    /\ result = [op |-> "none", ok |-> TRUE, err |-> ""]
    /\ IFDEntry_init_hooks = <<>>

NextSamples ==
    \/ ReadByteOrder
    \/ ReadMagic
    \/ ReadIFD0
    \/ WalkStep
    \/ WalkDone
    \/ GetSamples
    \/ IsContiguous

SpecSamples == InitSamples /\ [][NextSamples]_vars

\* pre-decode hooks: A and B act on BitsPerSample, C and D on
\* StripByteCounts; neither pair commutes
HookA == [tag |-> 258, from |-> 3, type |-> 4, count |-> Some(1)]

HookB == [tag |-> 258, from |-> 4, type |-> 1, count |-> Some(4)]

HookC == [tag |-> 279, from |-> 4, type |-> 3, count |-> None]

HookD == [tag |-> 279, from |-> 3, type |-> 1, count |-> None]

\* what lsm.register may have left in IFDEntry_init_hooks
HookLists ==
    {<<>>, <<HookA>>, <<HookA, HookB>>, <<HookB, HookA>>,
     <<HookC>>, <<HookC, HookD>>, <<HookD, HookC>>}

\* files in the machine's byte order, every shape of a first directory
HookFiles(o) == {File(o, o, 42, id, N, "zero", 0) : id \in Shapes, N \in {1, MaxChain}}

\* a file opened with hooks registered
InitHooks ==
    /\ host \in Orders
    /\ data \in HookFiles(host)
    /\ pc = "byteorder"
    /\ endian = "unset"
    /\ IFD_offset = 0
    /\ IFD_list = <<>>
    /\ memory_usage = <<Region(Len(data), Len(data), "eof")>>
    /\ is_lsm = FALSE
    /\ magic = None
    /\ result = [op |-> "none", ok |-> TRUE, err |-> ""]
    /\ IFDEntry_init_hooks \in HookLists

NextHooks ==
    \/ ReadByteOrder
    \/ ReadMagic
    \/ ReadIFD0
    \/ WalkStep
    \/ WalkDone

SpecHooks == InitHooks /\ [][NextHooks]_vars

-----------------------------------------------------------------------------
(* The specification's statements about these operations.                  *)

\* the 16-bit value of the bytes b0, b1 under the byte order e of the header
Decode16(e, b0, b1) == IF e = "little" THEN b0 + 256 * b1 ELSE 256 * b0 + b1

\* C1: every 16-bit read at an offset holding the bytes b0, b1 returns
\* b0 + 256*b1 when the header's marker is little-endian and 256*b0 + b1
\* when it is big-endian: the byte order resolved at open governs the reads.
C1_ReadsFollowHeader ==
    /\ magic # None =>
           magic[1] = Decode16(endian, data[first_byte + 3], data[first_byte + 4])
    /\ (result.op = "get_uint16" /\ result.ok /\ result.offset >= 0) =>
           result.val = Decode16(endian, data[result.offset + 1], data[result.offset + 2])

\* the lists get_samples left: locals of the call
Ret == result.ret

\* what directory k declares under a tag: None, or the numbers of the value
Declared(k, tag_name) ==
    LET e == IFD_get(IFD_list[k].entries, tag_name)
    IN  IF e = None \/ e[1].value = None THEN None
        ELSE Some(ViewInts(host, e[1].value[1]))

\* bits of channel j (from 1) as the first selected directory declares them
ChannelBits(j) ==
    LET bits == Declared(Ret.ifd_lst[1], "BitsPerSample")[1]
    IN  IF Len(bits) = 1 THEN bits[1] ELSE bits[j]

RECURSIVE BitsBefore(_)
BitsBefore(j) == IF j = 1 THEN 0 ELSE ChannelBits(j - 1) + BitsBefore(j - 1)

\* the positions of the bytes of sample j of pixel m of slice z (j from 1,
\* m and z from 0), S samples to the pixel
SampleAt(z, m, j, S) ==
    [b \in 1..(ChannelBits(j) \div 8) |->
        Ret.l[z + 1][1].v + m * (BitsBefore(S + 1) \div 8) + BitsBefore(j) \div 8 + b - 1]

\* C2: on the interleaved layout with S samples per pixel, channel j of the
\* S channels returned holds the samples j, j+S, j+2S, ... of each slice's
\* pixel bytes, in the shape [depth, height, width].
C2_InterleavedChannels ==
    (result.op = "get_samples" /\ Ret.at = "interleaved") =>
        LET S == Ret.p[1].samples_per_pixel[1].ints[1]
            W == Ret.p[1].width[1].ints[1]
            L == Ret.p[1].length[1].ints[1]
        IN  /\ result.ok
            /\ Len(Ret.samples) = S
            /\ \A j \in 1..S :
                 /\ Ret.samples[j].shape = <<Ret.i, L, W>>
                 /\ Ret.samples[j].elems =
                        [n \in 1..(Ret.i * L * W) |->
                            SampleAt((n - 1) \div (L * W), (n - 1) % (L * W), j, S)]

\* offset of record i of directory k in the file (both from 1)
RecordAt(k, i) == memory_usage[k + 2][1] + 2 + (i - 1) * 12

\* the regions an entry records under its own tag name
OwnRegions(e) == SelectSeq(e.memory_usage, LAMBDA r : r[3] = e.tag_name)

\* C3: an entry with count 1 and a type of 1 to 4 bytes has its value in
\* the 4-byte field of its record, no offset and no region of its own; any
\* other entry has the field as its absolute offset, the count elements
\* starting there as its value, and exactly one region
\* [offset, offset + width*count) under its tag name.
C3_InlineOrOffset ==
    \A k \in 1..Len(IFD_list) : \A i \in 1..Len(IFD_list[k].entries) :
        LET e == IFD_list[k].entries[i]
            w == type2bytes_get(e.type, 0)
            field == SubSeq(data, RecordAt(k, i) + 9, RecordAt(k, i) + 12)
        IN  IF e.count = 1 /\ 1 <= w /\ w <= 4
            THEN /\ e.offset = None
                 /\ OwnRegions(e) = <<>>
                 /\ e.value # None
                 /\ e.value[1].raw = SubSeq(field, 1, w)
            ELSE /\ e.offset # None
                 /\ e.offset[1] >= 0
                 /\ U32(host, e.offset[1]) = field
                 /\ e.value # None
                 /\ Len(e.value[1].raw) = w * e.count
                 /\ e.value[1].raw = SubSeq(data, e.offset[1] + 1, e.offset[1] + w * e.count)
                 /\ OwnRegions(e) =
                        <<Region(e.offset[1], e.offset[1] + w * e.count, e.tag_name)>>

\* the byte order the file's marker names
Marker ==
    IF Len(data) >= 2 /\ data[1] = 73 /\ data[2] = 73 THEN "little"
    ELSE IF Len(data) >= 2 /\ data[1] = 77 /\ data[2] = 77 THEN "big"
    ELSE "none"

SpecU16(off) == Decode16(Marker, data[off + 1], data[off + 2])

\* a 32-bit offset in the marker's byte order; -1 for one beyond 2^31
SpecU32(off) ==
    LET b == IF Marker = "little" THEN SubSeq(data, off + 1, off + 4)
             ELSE Reverse(SubSeq(data, off + 1, off + 4))
    IN  IF b[4] >= 128 THEN -1 ELSE b[1] + 256 * b[2] + 65536 * b[3] + 16777216 * b[4]

\* the offsets of the directories of the chain that starts at off, at most
\* n of them; a chain that leaves the file or is longer ends with -1
RECURSIVE ChainFrom(_, _)
ChainFrom(off, n) ==
    IF off = 0 THEN <<>>
    ELSE IF n = 0 \/ off < 0 \/ off + 2 > Len(data) THEN <<-1>>
    ELSE IF off + 2 + 12 * SpecU16(off) + 4 > Len(data) THEN <<-1>>
    ELSE <<off>> \o ChainFrom(SpecU32(off + 2 + 12 * SpecU16(off)), n - 1)

ChainOf ==
    IF Marker = "none" \/ Len(data) < 8 THEN <<-1>>
    ELSE IF SpecU16(2) # 42 THEN <<-1>>
    ELSE ChainFrom(SpecU32(4), MaxChain)

\* the file is a chain of N >= 1 directories ended by a next offset of 0
WellChained == ChainOf # <<>> /\ \A k \in 1..Len(ChainOf) : ChainOf[k] >= 0

\* C4: opening a file whose chain has N >= 1 directories, ended by a next
\* offset of 0, gives a list of exactly those N directories in chain order,
\* each with as many entries as it declares, in record order.
C4_ChainInOrder ==
    WellChained =>
        /\ pc # "failed"
        /\ pc = "open" =>
             /\ Len(IFD_list) = Len(ChainOf)
             /\ \A k \in 1..Len(IFD_list) :
                  /\ memory_usage[k + 2][1] = ChainOf[k]
                  /\ Len(IFD_list[k].entries) = SpecU16(ChainOf[k])
                  /\ \A i \in 1..Len(IFD_list[k].entries) :
                       IFD_list[k].entries[i].tag = SpecU16(ChainOf[k] + 2 + (i - 1) * 12)

\* C5: the walk of the directory chain at open always ends, also on a file
\* whose next offset leads back to a directory already visited: open
\* finishes, with its list or with an error.
C5_OpenTerminates == <>(pc \in {"open", "failed"})

\* C6: when a selected slice after the first declares a width, height,
\* planar configuration or bits per sample that differs from the first
\* slice's, get_samples fails and returns no channels.
C6_MismatchFails ==
    (result.op = "get_samples"
     /\ \E j \in 2..Len(Ret.ifd_lst) :
          \E tag_name \in {"ImageWidth", "ImageLength", "PlanarConfiguration", "BitsPerSample"} :
              /\ Declared(Ret.ifd_lst[j], tag_name) # None
              /\ Declared(Ret.ifd_lst[j], tag_name) # Declared(Ret.ifd_lst[1], tag_name))
    => ~result.ok

\* bytes a read asks for
ReadSize ==
    CASE result.op \in {"get_uint16", "get_int16"} -> 2
      [] result.op \in {"get_uint32", "get_int32", "get_float32"} -> 4
      [] result.op = "get_float64" -> 8
      [] result.op = "get_values" -> type2bytes_get(result.typ, 0) * result.count

\* C7: a read whose bytes [offset, offset + size) are not all inside the
\* buffer fails; it returns neither a value nor a shorter view.
C7_OutOfBoundsFails ==
    (/\ pc = "open"
     /\ result.op \in {"get_uint16", "get_int16", "get_uint32", "get_int32",
                       "get_float32", "get_float64", "get_values"}
     /\ (result.op = "get_values" => type2dtype_has(result.typ))
     /\ ~(0 <= result.offset /\ result.offset + ReadSize <= Len(data)))
    => ~result.ok

\* every region recorded, sorted
SortedRegions == SortRegions(memory_usage \o AllIFDUsage(IFD_list))

\* C8: check_memory_usage returns False exactly when, in the sorted list of
\* all regions, some region does not start where the one before it ends,
\* and it reports that gap (or overlap) with its size.
C8_FalseIffGap ==
    result.op = "check_memory_usage" =>
        /\ result.ret = FALSE <=>
               \E i \in 2..Len(SortedRegions) : SortedRegions[i][1] # SortedRegions[i - 1][2]
        /\ \A i \in 2..Len(SortedRegions) :
               SortedRegions[i][1] # SortedRegions[i - 1][2] =>
                   \E n \in 1..Len(result.report) :
                       result.report[n]
                           = <<"unknown", SortedRegions[i][1] - SortedRegions[i - 1][2]>>

\* the strips of directory k are contiguous: each ends where the next starts
Contiguous(k) ==
    LET offsets == Declared(k, "StripOffsets")[1]
        counts == Declared(k, "StripByteCounts")[1]
    IN  \A i \in 1..(Len(offsets) - 1) : offsets[i] + counts[i] = offsets[i + 1]

\* position in ifd_lst of the first selected slice that is not contiguous
FirstApart == CHOOSE j \in 1..Len(Ret.ifd_lst) :
                 /\ ~Contiguous(Ret.ifd_lst[j])
                 /\ \A n \in 1..(j - 1) : Contiguous(Ret.ifd_lst[n])

\* C9: a directory is judged contiguous exactly when every strip ends where
\* the next one starts (one strip always is); get_samples fails with the
\* not-contiguous error at the first selected slice that is not contiguous,
\* without going on to it or past it.
C9_Contiguity ==
    /\ result.op = "is_contiguous" =>
           /\ result.ok
           /\ result.ret[1] = Contiguous(result.k)
    /\ (result.op = "get_samples"
        /\ \E j \in 1..Len(Ret.ifd_lst) : ~Contiguous(Ret.ifd_lst[j])) =>
           /\ ~result.ok
           /\ Ret.at = "loop"
           /\ Ret.i <= FirstApart - 1
           /\ Ret.i = FirstApart - 1 => result.err = "NotImplementedError"

\* the gap between slice j and slice j + 1 of l
GapAfter(j) == Ret.l[j + 1][1].v - Ret.l[j][2].v

\* every selected slice's strip span lies inside the buffer
SlicesInBuffer ==
    \A j \in 1..Len(Ret.l) :
        0 <= Ret.l[j][1].v /\ Ret.l[j][1].v <= Ret.l[j][2].v /\ Ret.l[j][2].v <= Len(data)

\* C10: get_samples takes the fast path exactly when the first slice's
\* compression is 1 and the gap between consecutive slices is the same
\* throughout; then, for any depth and any placement of the slices in the
\* buffer, it builds the view of shape [depth, strip_length + step].
C10_FastPathView ==
    (/\ result.op = "get_samples"
     /\ Ret.at \notin {"select", "loop", "names"}
     /\ SlicesInBuffer) =>
        LET uncompressed == Declared(Ret.ifd_lst[1], "Compression") = Some(<<1>>)
            even == \A j \in 1..(Len(Ret.l) - 1) : GapAfter(j) = GapAfter(1)
        IN  /\ Ret.can_return_memmap <=> (uncompressed /\ even)
            /\ (uncompressed /\ even) =>
                 /\ Ret.arr # None
                 /\ Ret.arr[1].depth = Ret.i
                 /\ Ret.arr[1].ncols =
                        (Ret.l[1][2].v - Ret.l[1][1].v)
                        + (IF Len(Ret.l) >= 2 THEN GapAfter(1) ELSE 0)

\* bytes of one image as the first selected directory declares it
ImageBytes ==
    Declared(Ret.ifd_lst[1], "ImageWidth")[1][1]
        * Declared(Ret.ifd_lst[1], "ImageLength")[1][1] * (ChannelBits(1) \div 8)

\* the bytes slice z (from 1) gives to the owned buffer: what the external
\* decode function returns for its strip bytes when the compression is the
\* supported scheme (5), else the strip bytes themselves
SlowBytes(z) ==
    IF Declared(Ret.ifd_lst[1], "Compression") = Some(<<5>>)
    THEN tif_lzw_decode(Ret.l[z][1].v, ImageBytes)
    ELSE [n \in 1..(Ret.l[z][2].v - Ret.l[z][1].v) |-> Ret.l[z][1].v + n - 1]

\* the call took the slow path on the interleaved layout with one sample
\* per pixel
SlowInterleavedOne ==
    /\ result.op = "get_samples"
    /\ Ret.at = "slow"
    /\ Declared(Ret.ifd_lst[1], "PlanarConfiguration") = Some(<<1>>)
    /\ Declared(Ret.ifd_lst[1], "SamplesPerPixel") \in {None, Some(<<1>>)}

\* C11: on the slow path with the interleaved layout and one sample per
\* pixel, for every depth >= 1 get_samples returns one channel of shape
\* [depth, height, width] over an owned buffer of depth * bytes_per_image
\* bytes that holds each selected slice's strip bytes in chain order,
\* decoded when the compression is the supported scheme and raw otherwise.
C11_SlowPathChannel ==
    (SlowInterleavedOne /\ SlicesInBuffer) =>
        /\ result.ok
        /\ Len(Ret.samples) = 1
        /\ Ret.samples[1].base = "empty"
        /\ Ret.samples[1].shape =
               <<Len(Ret.ifd_lst), Declared(Ret.ifd_lst[1], "ImageLength")[1][1],
                 Declared(Ret.ifd_lst[1], "ImageWidth")[1][1]>>
        /\ Concat(Ret.samples[1].elems) = Concat([z \in 1..Len(Ret.l) |-> SlowBytes(z)])
        /\ Len(Concat(Ret.samples[1].elems)) = Len(Ret.ifd_lst) * ImageBytes

\* the subfile type of directory k: what its NewSubfileType tag declares,
\* and 0, the tag's default in TIFF, for a directory without the tag
SubfileTypeOf(k) ==
    IF Declared(k, "NewSubfileType") = None THEN 0
    ELSE Declared(k, "NewSubfileType")[1][1]

\* the directories of subfile type t, in chain order
OfSubfileType(t) ==
    SelectSeq([k \in 1..Len(IFD_list) |-> k], LAMBDA k : SubfileTypeOf(k) = t)

\* C12: for every selector, the slices get_samples works on are exactly the
\* directories whose subfile type equals the selector, in chain order; the
\* depth of every channel returned is their number; a directory of another
\* subfile type never contributes a slice.
C12_SelectedSlices ==
    result.op = "get_samples" =>
        /\ Ret.ifd_lst = OfSubfileType(result.subfile_type)
        /\ \A j \in 1..Len(Ret.l) :
               Ret.l[j][1].v = Declared(OfSubfileType(result.subfile_type)[j], "StripOffsets")[1][1]
        /\ result.ok =>
               \A j \in 1..Len(Ret.samples) :
                   Ret.samples[j].shape[1] = Len(OfSubfileType(result.subfile_type))

\* the directories whose NewSubfileType tag equals t or that have no such
\* tag, in chain order
TaggedOrUntagged(t) ==
    SelectSeq([k \in 1..Len(IFD_list) |-> k],
              LAMBDA k : Declared(k, "NewSubfileType") \in {None, Some(<<t>>)})

\* C12 (as the code has it): for every selector, the slices get_samples
\* works on are exactly the directories whose NewSubfileType tag equals the
\* selector together with those that have no such tag, in chain order; the
\* depth of every channel returned is their number; a directory whose tag
\* declares another value never contributes a slice.
C12_SelectedOrUntagged ==
    result.op = "get_samples" =>
        /\ Ret.ifd_lst = TaggedOrUntagged(result.subfile_type)
        /\ \A j \in 1..Len(Ret.l) :
               Ret.l[j][1].v
                   = Declared(TaggedOrUntagged(result.subfile_type)[j], "StripOffsets")[1][1]
        /\ result.ok =>
               \A j \in 1..Len(Ret.samples) :
                   Ret.samples[j].shape[1] = Len(TaggedOrUntagged(result.subfile_type))

\* get_samples returned channels after leaving out a directory of another
\* subfile type
C12_Witness ==
    /\ result.op = "get_samples"
    /\ result.ok
    /\ Len(Ret.ifd_lst) >= 1
    /\ \E k \in 1..Len(IFD_list) :
           /\ Declared(k, "NewSubfileType") \notin {None, Some(<<result.subfile_type>>)}
           /\ \A j \in 1..Len(Ret.ifd_lst) : Ret.ifd_lst[j] # k
    /\ Ret.samples[1].shape[1] = Len(Ret.ifd_lst)

\* the tag, type and count stored in record i of directory k
RawRecord(k, i) ==
    [tag |-> SpecU16(RecordAt(k, i)),
     type |-> SpecU16(RecordAt(k, i) + 2),
     count |-> SpecU32(RecordAt(k, i) + 4)]

\* what the first n registered hooks, each called once and in the order of
\* their registration, leave of e
RECURSIVE AfterHooks(_, _)
AfterHooks(e, n) ==
    IF n = 0 THEN e ELSE RunHook(IFDEntry_init_hooks[n], AfterHooks(e, n - 1))

\* the regions an entry records under another name than its tag's
HookRegions(e) == SelectSeq(e.memory_usage, LAMBDA r : r[3] # e.tag_name)

\* the strip regions of a StripOffsets entry e, from the values e and the
\* StripByteCounts entry of the same directory hold
StripsOf(entries, e) ==
    LET counts == IFD_get(entries, "StripByteCounts")[1].value[1]
    IN  IF e.offset # None
        THEN StripRegions(ViewInts(host, counts), ViewInts(host, e.value[1]))
        ELSE <<Region(ViewInts(host, e.value[1])[1],
                      ViewInts(host, e.value[1])[1] + ViewInts(host, counts)[1],
                      "strip")>>

\* C13: every entry of a directory that open has decoded holds the tag
\* read from its record, and the type and the count that the registered
\* pre-decode hooks, called once each in registration order, made of the
\* ones read; its byte width and its value (inline or at its offset) are
\* those of the rewritten type and count; and the regions the finalize
\* hook added are computed from the materialized values of the directory,
\* for every directory of the list and so before open returns.
C13_HookOrder ==
    \A k \in 1..Len(IFD_list) : \A i \in 1..Len(IFD_list[k].entries) :
        LET e == IFD_list[k].entries[i]
            h == AfterHooks(RawRecord(k, i), Len(IFDEntry_init_hooks))
            w == type2bytes_get(h.type, 0)
        IN  /\ e.tag = RawRecord(k, i).tag
            /\ e.type = h.type
            /\ e.count = h.count
            /\ e.bytes = w
            /\ IF h.count = 1 /\ 1 <= w /\ w <= 4
               THEN /\ e.offset = None
                    /\ e.value = get_value(data, RecordAt(k, i) + 8, h.type).val
               ELSE /\ e.offset # None
                    /\ e.value = get_values(data, e.offset[1], h.type, h.count).val
            /\ HookRegions(e) =
                   IF e.tag_name = "StripOffsets" THEN StripsOf(IFD_list[k].entries, e)
                   ELSE <<>>

\* an opened file in which two hooks in turn made BYTEs of the LONGs of a
\* StripByteCounts entry, and whose StripOffsets entry, decoded before it,
\* has its strip regions
C13_Witness ==
    /\ pc = "open"
    /\ Len(IFDEntry_init_hooks) = 2
    /\ \E k \in 1..Len(IFD_list) : \E i, j \in 1..Len(IFD_list[k].entries) :
          /\ i < j
          /\ IFD_list[k].entries[i].tag_name = "StripOffsets"
          /\ HookRegions(IFD_list[k].entries[i]) # <<>>
          /\ IFD_list[k].entries[j].tag_name = "StripByteCounts"
          /\ RawRecord(k, j).type = 4
          /\ IFD_list[k].entries[j].type = 1
          /\ IFD_list[k].entries[j].value # None

====
